---- MODULE Spec2Model ----
(***************************************************************************)
(* Portfolio content API (src/backend/main.py, src/schemas.py): public     *)
(* reads and token-gated admin writes over a document store, plus the      *)
(* in-memory contact rate limiter.                                         *)
(*                                                                         *)
(* Conventions of the model                                                *)
(*  - db maps a collection name to the collection; a collection is a       *)
(*    function from the ObjectIds present in it to the stored documents;   *)
(*    ObjectIds are the naturals 1, 2, ... handed out in increasing order  *)
(*    by nextId, so natural (insertion) order is id order; the activity    *)
(*    log is the sequence of its entries in insertion order                *)
(*  - a text is a sequence of one-character strings, so that the           *)
(*    case-insensitive "$regex" match is computed, not assumed             *)
(*  - now is the wall clock in seconds; every handler reads it             *)
(*  - call is the last request (handler and arguments), resp its response *)
(*  - the store is configured (db is not None) and starts empty; startup   *)
(*    seeding and uploads are outside the modelled core                    *)
(***************************************************************************)
EXTENDS Integers, Sequences, FiniteSets, TLC

VARIABLES
    db,             \* the document store: collection name -> collection
    nextId,         \* the next ObjectId the store hands out
    now,            \* datetime.now()
    rate_cache,     \* _rate_cache: caller key -> accepted timestamps
    submissions,    \* history of contact submissions: key, time, accepted
    pc,             \* per worker: position inside a create_project in flight
    pending,        \* per worker: the data of the create_project in flight
    call,           \* the last request
    resp            \* the last response

vars == <<db, nextId, now, rate_cache, submissions, pc, pending, call, resp>>

\* ------------------------------------------------------------------ bounds

MaxLog == 3
MaxClock == 1
MaxLimit == 2
MaxSubmissions == 5

\* --------------------------------------------------------- program constants

ADMIN_TOKEN == "changeme-admin-token"

window == 60

RateMax == 3

\* an absent (or empty, equally falsy) text parameter
NONE == <<>>

\* an Optional[bool] parameter is the set of its values: {} when absent
NoBool == {}

Workers == {"w1", "w2"}

\* ------------------------------------------------------------------- texts

Lower(c) ==
    CASE c = "A" -> "a"
      [] c = "B" -> "b"
      [] c = "C" -> "c"
      [] OTHER -> c

\* {"field": {"$regex": pat, "$options": "i"}} on one text: pat occurs in it,
\* case folded (pat holds no regex metacharacter)
RegexI(text, pat) ==
    \E k \in 0..(Len(text) - Len(pat)) :
        \A j \in 1..Len(pat) : Lower(text[k + j]) = Lower(pat[j])

\* the same match on an array field: some element matches
RegexIAny(texts, pat) == \E k \in 1..Len(texts) : RegexI(texts[k], pat)

\* {"tags": {"$in": [tag]}}: some element equals tag
InArray(texts, tag) == \E k \in 1..Len(texts) : texts[k] = tag

\* -------------------------------------------------------------- the store

\* the fields of doc overwritten by those of fields ("$set")
SetFields(doc, fields) ==
    [k \in (DOMAIN doc) \cup (DOMAIN fields) |->
        IF k \in DOMAIN fields THEN fields[k] ELSE doc[k]]

insert_one(coll, id, doc) ==
    [i \in (DOMAIN coll) \cup {id} |-> IF i = id THEN doc ELSE coll[i]]

update_one(coll, id, fields) ==
    IF id \in DOMAIN coll
    THEN [coll EXCEPT ![id] = SetFields(coll[id], fields)]
    ELSE coll

update_many(coll, ids, fields) ==
    [i \in DOMAIN coll |-> IF i \in ids THEN SetFields(coll[i], fields) ELSE coll[i]]

delete_one(coll, id) == [i \in (DOMAIN coll) \ {id} |-> coll[i]]

matched_count(coll, id) == IF id \in DOMAIN coll THEN 1 ELSE 0

\* lexicographic order on integer tuples of one length
LexLess(a, b) ==
    \E k \in 1..Len(a) :
        /\ a[k] < b[k]
        /\ \A j \in 1..(k - 1) : a[j] = b[j]

\* the ids of S in increasing order of key[id]
RECURSIVE SortByKey(_, _)
SortByKey(S, key) ==
    IF S = {} THEN <<>>
    ELSE LET m == CHOOSE x \in S : \A y \in S \ {x} : LexLess(key[x], key[y])
         IN  <<m>> \o SortByKey(S \ {m}, key)

\* cursor.skip(n)
Skip(s, n) == IF n >= Len(s) THEN <<>> ELSE SubSeq(s, n + 1, Len(s))

\* cursor.limit(n); a limit of 0 is no limit
Limit(s, n) == IF n = 0 \/ n >= Len(s) THEN s ELSE SubSeq(s, 1, n)

IsoFormat(t) == [iso |-> t]

\* to_dict: "_id" becomes the string "id", the timestamps are ISO formatted
to_dict(id, doc) ==
    SetFields(doc, [id |-> id,
                    created_at |-> IsoFormat(doc.created_at),
                    updated_at |-> IsoFormat(doc.updated_at)])

\* a query without the soft-delete filter
NotDeletedOff(doc) == TRUE

\* {"deleted": {"$ne": True}}
NotDeleted(doc) == doc.deleted # TRUE

LogEntry(action, entity, entity_id, t) ==
    [user_email |-> "admin", action |-> action, entity |-> entity,
     entity_id |-> entity_id, timestamp |-> t]

\* -------------------------------------------------------------- auth gate

\* a gate that only asks for some credential
RequireAdminAny(cred) == cred # ""

require_admin(cred) == cred = ADMIN_TOKEN

\* the request ends in require_admin: no handler code runs
Unauthorized(c) ==
    /\ call' = c
    /\ resp' = [status |-> 401, detail |-> "Unauthorized"]
    /\ UNCHANGED <<db, nextId, now, rate_cache, submissions, pc, pending>>

\* a handler that only reads the store
Read(c, body) ==
    /\ call' = c
    /\ resp' = body
    /\ UNCHANGED <<db, nextId, now, rate_cache, submissions, pc, pending>>

\* ----------------------------------------------------------- public reads

\* the query document q of list_projects
ProjectQuery(doc, published, tag, search) ==
    /\ NotDeleted(doc)
    /\ (published # NoBool => doc.published \in published)
    /\ (tag # NONE => InArray(doc.tags, tag))
    /\ (search # NONE =>
            \/ RegexI(doc.title, search)
            \/ RegexI(doc.shortDesc, search)
            \/ RegexIAny(doc.tags, search))

\* the sort without its orderIndex key
ProjectSortKeyNoOrder(coll) ==
    [i \in DOMAIN coll |->
        <<IF coll[i].featured THEN 0 ELSE 1, 0, 0 - coll[i].created_at, i>>]

\* sort([("featured", -1), ("orderIndex", 1), ("created_at", -1)]); documents
\* equal on all three keys stay in natural order
ProjectSortKey(coll) ==
    [i \in DOMAIN coll |->
        <<IF coll[i].featured THEN 0 ELSE 1, coll[i].orderIndex,
          0 - coll[i].created_at, i>>]

ProjectCursor(coll, published, tag, search) ==
    SortByKey({i \in DOMAIN coll : ProjectQuery(coll[i], published, tag, search)},
              ProjectSortKey(coll))

count_documents(coll, published, tag, search) ==
    Cardinality({i \in DOMAIN coll : ProjectQuery(coll[i], published, tag, search)})

\* paging with pages counted from zero
PageOfZeroBased(cursor, page, limit) == Limit(Skip(cursor, page * limit), limit)

\* cursor.skip((page-1)*limit).limit(limit)
PageOf(cursor, page, limit) == Limit(Skip(cursor, (page - 1) * limit), limit)

\* [to_dict(x) for x in cursor]
Items(coll, ids) == [k \in 1..Len(ids) |-> to_dict(ids[k], coll[ids[k]])]

ListProjectsBody(coll, published, tag, search, page, limit) ==
    [status |-> 200,
     items |-> Items(coll, PageOf(ProjectCursor(coll, published, tag, search), page, limit)),
     total |-> count_documents(coll, published, tag, search),
     page |-> page, limit |-> limit]

list_projects(published, tag, search, page, limit) ==
    Read([op |-> "list_projects", published |-> published, tag |-> tag,
          search |-> search, page |-> page, limit |-> limit],
         ListProjectsBody(db.project, published, tag, search, page, limit))

\* find_one({"slug": slug, "deleted": {"$ne": True}}): the first match in
\* natural order, or none
FindProjectBySlug(coll, slug) ==
    {i \in DOMAIN coll :
        /\ coll[i].slug = slug /\ NotDeleted(coll[i])
        /\ \A j \in DOMAIN coll :
              (coll[j].slug = slug /\ NotDeleted(coll[j])) => i <= j}

GetProjectBody(coll, slug) ==
    LET found == FindProjectBySlug(coll, slug)
    IN  IF found = {} THEN [status |-> 404, detail |-> "Not found"]
        ELSE LET i == CHOOSE x \in found : TRUE
             IN  [status |-> 200, item |-> to_dict(i, coll[i])]

get_project(slug) == Read([op |-> "get_project", slug |-> slug], GetProjectBody(db.project, slug))

\* the query document q of list_skills
SkillQuery(doc, category, search) ==
    /\ NotDeleted(doc)
    /\ doc.published = TRUE
    /\ (category # NONE => doc.category = category)
    /\ (search # NONE =>
            \/ RegexI(doc.name, search)
            \/ RegexI(doc.category, search))

\* sort("orderIndex", 1)
OrderIndexKey(coll) == [i \in DOMAIN coll |-> <<coll[i].orderIndex, i>>]

ListSkillsBody(coll, category, search) ==
    [status |-> 200,
     items |-> Items(coll, SortByKey({i \in DOMAIN coll : SkillQuery(coll[i], category, search)},
                                     OrderIndexKey(coll)))]

list_skills(category, search) ==
    Read([op |-> "list_skills", category |-> category, search |-> search],
         ListSkillsBody(db.skill, category, search))

\* the query document q of list_testimonials
TestimonialQuery(doc) == NotDeleted(doc) /\ doc.published = TRUE

ListTestimonialsBody(coll) ==
    [status |-> 200,
     items |-> Items(coll, SortByKey({i \in DOMAIN coll : TestimonialQuery(coll[i])},
                                     OrderIndexKey(coll)))]

list_testimonials == Read([op |-> "list_testimonials"], ListTestimonialsBody(db.testimonial))

\* the query document q of list_certificates
CertificateQuery(doc, tag, search) ==
    /\ NotDeleted(doc)
    /\ doc.published = TRUE
    /\ (tag # NONE => InArray(doc.tags, tag))
    /\ (search # NONE =>
            \/ RegexI(doc.title, search)
            \/ RegexI(doc.issuer, search)
            \/ RegexIAny(doc.tags, search))

\* sort("_id", -1)
NewestFirstKey(coll) == [i \in DOMAIN coll |-> <<0 - i>>]

ListCertificatesBody(coll, tag, search) ==
    [status |-> 200,
     items |-> Items(coll, SortByKey({i \in DOMAIN coll : CertificateQuery(coll[i], tag, search)},
                                     NewestFirstKey(coll)))]

list_certificates(tag, search) ==
    Read([op |-> "list_certificates", tag |-> tag, search |-> search],
         ListCertificatesBody(db.certificate, tag, search))

\* ----------------------------------------------------------- admin writes

\* db["activitylog"].insert_one(entry), the last store operation of a handler
\* whose entity write is done: it appends the entry and the handler returns
\* ok, or it raises and the request ends in a server error
InsertLog(store, entry, log_ok, ok) ==
    IF log_ok
    THEN /\ db' = [store EXCEPT !.activitylog = Append(@, entry)]
         /\ resp' = ok
    ELSE /\ db' = store
         /\ resp' = [status |-> 500, detail |-> "Internal Server Error"]

\* the requests of the admin handlers, as call records them
CreateCall(op, cred, payload) == [op |-> op, cred |-> cred, payload |-> payload]

UpdateCall(op, cred, id, payload) ==
    [op |-> op, cred |-> cred, id |-> id, payload |-> payload]

DeleteCall(op, cred, id, hard) == [op |-> op, cred |-> cred, id |-> id, hard |-> hard]

\* payload.model_dump() with the timestamps of data.update
Data(payload, stamps) == SetFields(payload, stamps)

\* the slug check as a query that skips soft-deleted documents
SlugExistsLive(coll, slug) ==
    \E i \in DOMAIN coll : coll[i].slug = slug /\ NotDeleted(coll[i])

\* find_one({"slug": slug}) of create_project: any document, deleted or not
SlugExists(coll, slug) == \E i \in DOMAIN coll : coll[i].slug = slug

\* insert_one(data) of a create handler, then its activity-log entry
InsertDoc(entity, payload, t, log_ok) ==
    /\ InsertLog([db EXCEPT ![entity] = insert_one(@, nextId,
                        Data(payload, [created_at |-> t, updated_at |-> t]))],
                 LogEntry("create", entity, nextId, t), log_ok,
                 [status |-> 200, id |-> nextId])
    /\ nextId' = nextId + 1

create_project(cred, payload, log_ok) ==
    IF ~require_admin(cred) THEN Unauthorized(CreateCall("create_project", cred, payload))
    ELSE /\ call' = CreateCall("create_project", cred, payload)
         /\ IF SlugExists(db.project, payload.slug)
            THEN /\ resp' = [status |-> 400, detail |-> "Slug already exists"]
                 /\ UNCHANGED <<db, nextId>>
            ELSE InsertDoc("project", payload, now, log_ok)
         /\ UNCHANGED <<now, rate_cache, submissions, pc, pending>>

\* create_project as the two store operations it is made of, run by worker w
\* with other requests in between: first the slug check ...
create_project_check(w, cred, payload) ==
    /\ pc[w] = "idle"
    /\ IF ~require_admin(cred)
       THEN Unauthorized(CreateCall("create_project", cred, payload))
       ELSE /\ call' = CreateCall("create_project", cred, payload)
            /\ IF SlugExists(db.project, payload.slug)
               THEN /\ resp' = [status |-> 400, detail |-> "Slug already exists"]
                    /\ UNCHANGED <<pc, pending>>
               ELSE /\ pc' = [pc EXCEPT ![w] = "insert"]
                    /\ pending' = [pending EXCEPT ![w] = [payload |-> payload, now |-> now]]
                    /\ UNCHANGED resp
            /\ UNCHANGED <<db, nextId, now, rate_cache, submissions>>

\* ... then the insert and the activity-log entry
create_project_insert(w, log_ok) ==
    /\ pc[w] = "insert"
    /\ call' = CreateCall("create_project", ADMIN_TOKEN, pending[w].payload)
    /\ InsertDoc("project", pending[w].payload, pending[w].now, log_ok)
    /\ pc' = [pc EXCEPT ![w] = "idle"]
    /\ pending' = [pending EXCEPT ![w] = <<>>]
    /\ UNCHANGED <<now, rate_cache, submissions>>

\* create_skill, create_testimonial, create_certificate
CreateDoc(c, entity, cred, payload, log_ok) ==
    IF ~require_admin(cred) THEN Unauthorized(c)
    ELSE /\ call' = c
         /\ InsertDoc(entity, payload, now, log_ok)
         /\ UNCHANGED <<now, rate_cache, submissions, pc, pending>>

create_skill(cred, payload, log_ok) ==
    CreateDoc(CreateCall("create_skill", cred, payload), "skill", cred, payload, log_ok)

create_testimonial(cred, payload, log_ok) ==
    CreateDoc(CreateCall("create_testimonial", cred, payload), "testimonial", cred, payload, log_ok)

create_certificate(cred, payload, log_ok) ==
    CreateDoc(CreateCall("create_certificate", cred, payload), "certificate", cred, payload, log_ok)

\* update_project, update_skill, update_testimonial, update_certificate
UpdateDoc(c, entity, cred, id, payload, log_ok) ==
    IF ~require_admin(cred) THEN Unauthorized(c)
    ELSE /\ call' = c
         /\ IF matched_count(db[entity], id) = 0
            THEN /\ resp' = [status |-> 404, detail |-> "Not found"]
                 /\ UNCHANGED db
            ELSE InsertLog([db EXCEPT ![entity] =
                                update_one(@, id, Data(payload, [updated_at |-> now]))],
                           LogEntry("update", entity, id, now), log_ok,
                           [status |-> 200, ok |-> TRUE])
         /\ UNCHANGED <<nextId, now, rate_cache, submissions, pc, pending>>

update_project(cred, id, payload, log_ok) ==
    UpdateDoc(UpdateCall("update_project", cred, id, payload), "project", cred, id, payload,
              log_ok)

update_skill(cred, id, payload, log_ok) ==
    UpdateDoc(UpdateCall("update_skill", cred, id, payload), "skill", cred, id, payload,
              log_ok)

update_testimonial(cred, id, payload, log_ok) ==
    UpdateDoc(UpdateCall("update_testimonial", cred, id, payload), "testimonial", cred, id, payload,
              log_ok)

update_certificate(cred, id, payload, log_ok) ==
    UpdateDoc(UpdateCall("update_certificate", cred, id, payload), "certificate", cred, id, payload,
              log_ok)

\* the store write of a delete handler: physical removal, or the deleted flag
DeleteWrite(coll, id, hard, t) ==
    IF hard THEN delete_one(coll, id)
    ELSE update_one(coll, id, [deleted |-> TRUE, updated_at |-> t])

\* delete_project, delete_skill, delete_testimonial, delete_certificate
DeleteDoc(c, entity, cred, id, hard, log_ok) ==
    IF ~require_admin(cred) THEN Unauthorized(c)
    ELSE /\ call' = c
         /\ InsertLog([db EXCEPT ![entity] = DeleteWrite(@, id, hard, now)],
                      LogEntry("delete", entity, id, now), log_ok,
                      [status |-> 200, ok |-> TRUE])
         /\ UNCHANGED <<nextId, now, rate_cache, submissions, pc, pending>>

delete_project(cred, id, hard, log_ok) ==
    DeleteDoc(DeleteCall("delete_project", cred, id, hard), "project", cred, id, hard, log_ok)

delete_skill(cred, id, hard, log_ok) ==
    DeleteDoc(DeleteCall("delete_skill", cred, id, hard), "skill", cred, id, hard, log_ok)

delete_testimonial(cred, id, hard, log_ok) ==
    DeleteDoc(DeleteCall("delete_testimonial", cred, id, hard), "testimonial", cred, id, hard, log_ok)

delete_certificate(cred, id, hard, log_ok) ==
    DeleteDoc(DeleteCall("delete_certificate", cred, id, hard), "certificate", cred, id, hard, log_ok)

\* the set of the ids of a list
Range(s) == {s[k] : k \in 1..Len(s)}

\* the bulk write as a query that skips soft-deleted documents
BulkPublishLive(coll, ids, published, t) ==
    update_many(coll, {i \in Range(ids) \cap DOMAIN coll : NotDeleted(coll[i])},
                [published |-> published, updated_at |-> t])

\* update_many({"_id": {"$in": ids}}, {"$set": {published, updated_at}})
BulkPublish(coll, ids, published, t) ==
    update_many(coll, Range(ids), [published |-> published, updated_at |-> t])

bulk_publish_projects(cred, ids, published) ==
    LET c == [op |-> "bulk_publish_projects", cred |-> cred, ids |-> ids,
              published |-> published]
    IN
    IF ~require_admin(cred) THEN Unauthorized(c)
    ELSE /\ call' = c
         /\ db' = [db EXCEPT !.project = BulkPublish(@, ids, published, now)]
         /\ resp' = [status |-> 200, ok |-> TRUE]
         /\ UNCHANGED <<nextId, now, rate_cache, submissions, pc, pending>>

\* the position counted from one
ReorderIndexOneBased(k) == k

\* enumerate(ordered_ids): the index written for the id at 1-based position k
ReorderIndex(k) == k - 1

\* the loop of reorder_projects from position k on: one update_one per id
RECURSIVE ReorderFrom(_, _, _)
ReorderFrom(coll, ordered_ids, k) ==
    IF k > Len(ordered_ids) THEN coll
    ELSE ReorderFrom(update_one(coll, ordered_ids[k], [orderIndex |-> ReorderIndex(k)]),
                     ordered_ids, k + 1)

reorder_projects(cred, ordered_ids) ==
    LET c == [op |-> "reorder_projects", cred |-> cred, ordered_ids |-> ordered_ids]
    IN
    IF ~require_admin(cred) THEN Unauthorized(c)
    ELSE /\ call' = c
         /\ db' = [db EXCEPT !.project = ReorderFrom(@, ordered_ids, 1)]
         /\ resp' = [status |-> 200, ok |-> TRUE]
         /\ UNCHANGED <<nextId, now, rate_cache, submissions, pc, pending>>

\* ------------------------------------------------------------- contact

\* a window that still holds a submission made exactly window seconds ago
InWindowInclusive(t, t_now) == t_now - t <= window

\* now - t < window
InWindow(t, t_now) == t_now - t < window

\* _rate_cache.get(ip, [])
CacheGet(ip) == IF ip \in DOMAIN rate_cache THEN rate_cache[ip] ELSE <<>>

\* [t for t in entry if now - t < window]
Prune(entry, t_now) == SelectSeq(entry, LAMBDA t : InWindow(t, t_now))

\* len(entry) >= 3
LimitReached(entry) == Len(entry) >= RateMax

contact(ip, form) ==
    LET entry == Prune(CacheGet(ip), now)
    IN  /\ call' = [op |-> "contact", ip |-> ip, form |-> form]
        /\ IF LimitReached(entry)
           THEN /\ resp' = [status |-> 429, detail |-> "Too many requests"]
                /\ submissions' = Append(submissions,
                                         [key |-> ip, t |-> now, accepted |-> FALSE])
                /\ UNCHANGED <<rate_cache, db>>
           ELSE /\ rate_cache' = [k \in (DOMAIN rate_cache) \cup {ip} |->
                                     IF k = ip THEN Append(entry, now) ELSE rate_cache[k]]
                /\ db' = [db EXCEPT !.activitylog = Append(@,
                            [user_email |-> form.email, action |-> "contact",
                             entity |-> "message", entity_id |-> "-",
                             metadata |-> form, timestamp |-> now])]
                /\ submissions' = Append(submissions,
                                         [key |-> ip, t |-> now, accepted |-> TRUE])
                /\ resp' = [status |-> 200, ok |-> TRUE]
        /\ UNCHANGED <<nextId, now, pc, pending>>

\* the clock moves on by d seconds between two requests
Tick(d) ==
    /\ now' = now + d
    /\ UNCHANGED <<db, nextId, rate_cache, submissions, pc, pending, call, resp>>

\* ------------------------------------------------------------------- Init

Init ==
    /\ db = [project |-> <<>>, skill |-> <<>>, testimonial |-> <<>>,
             certificate |-> <<>>, activitylog |-> <<>>]
    /\ nextId = 1
    /\ now = 0
    /\ rate_cache = [k \in {} |-> <<>>]
    /\ submissions = <<>>
    /\ pc = [w \in Workers |-> "idle"]
    /\ pending = [w \in Workers |-> <<>>]
    /\ call = [op |-> "none"]
    /\ resp = [status |-> 0]

\* ------------------------------------------------- inputs of the requests

\* a Project request body; the fields no handler reads (longDesc, tech, the
\* URLs, images, createdAt, updatedAt) are left out
ProjectPayload(title, slug, tags, featured, published, orderIndex) ==
    [title |-> title, slug |-> slug, shortDesc |-> <<"c">>, tags |-> tags,
     featured |-> featured, published |-> published, orderIndex |-> orderIndex,
     deleted |-> FALSE]

ProjectPayloads ==
    { ProjectPayload(<<"A", "b">>, "a", << <<"B">> >>, TRUE, TRUE, 0),
      ProjectPayload(<<"b">>, "b", <<>>, FALSE, FALSE, 0),
      ProjectPayload(<<"a">>, "a", <<>>, FALSE, TRUE, 1) }

Slugs == {"a", "b"}

\* the ids a request may name: those handed out so far, or not (yet)
ReqIds == 1..MaxLog

\* the id lists of a request: every list of at most two ids, repeats included
IdSeqs == UNION {[1..k -> ReqIds] : k \in 0..2}

\* a list without repeats
Distinct(s) == \A j, k \in 1..Len(s) : j # k => s[j] # s[k]

\* the id lists of a reorder request: those, and every list of three
\* different ids
OrderSeqs == IdSeqs \cup {s \in [1..3 -> ReqIds] : Distinct(s)}

\* every write that logs stops once the activity log holds MaxLog entries;
\* each create logs, so no more than MaxLog ObjectIds are handed out
Logging == Len(db.activitylog) < MaxLog

\* ------------------------------------- Spec: project writes and bulk publish

Next ==
    \/ \E p \in ProjectPayloads : Logging /\ create_project(ADMIN_TOKEN, p, TRUE)
    \/ \E i \in ReqIds, p \in ProjectPayloads :
          Logging /\ update_project(ADMIN_TOKEN, i, p, TRUE)
    \/ \E i \in ReqIds, hard \in BOOLEAN :
          Logging /\ delete_project(ADMIN_TOKEN, i, hard, TRUE)
    \/ \E ids \in IdSeqs, published \in BOOLEAN :
          bulk_publish_projects(ADMIN_TOKEN, ids, published)
    \/ \E slug \in Slugs : get_project(slug)

Spec == Init /\ [][Next]_vars

\* ------------------------------------------ SpecOrder: manual ordering

NextOrder ==
    \/ \E p \in ProjectPayloads : Logging /\ create_project(ADMIN_TOKEN, p, TRUE)
    \/ \E i \in ReqIds, hard \in BOOLEAN :
          Logging /\ delete_project(ADMIN_TOKEN, i, hard, TRUE)
    \/ \E ids \in OrderSeqs : reorder_projects(ADMIN_TOKEN, ids)
    \/ list_projects(NoBool, NONE, NONE, 1, 20)

SpecOrder == Init /\ [][NextOrder]_vars

\* ------------------------- SpecRace: create_project as two store operations

\* a create in flight will log: it counts against the bound
InFlight == Cardinality({w \in Workers : pc[w] = "insert"})

NextRace ==
    \/ \E w \in Workers, p \in ProjectPayloads :
          /\ Len(db.activitylog) + InFlight < MaxLog
          /\ create_project_check(w, ADMIN_TOKEN, p)
    \/ \E w \in Workers : create_project_insert(w, TRUE)
    \/ \E i \in ReqIds, p \in ProjectPayloads :
          /\ Len(db.activitylog) + InFlight < MaxLog
          /\ update_project(ADMIN_TOKEN, i, p, TRUE)
    \/ \E i \in ReqIds, hard \in BOOLEAN :
          /\ Len(db.activitylog) + InFlight < MaxLog
          /\ delete_project(ADMIN_TOKEN, i, hard, TRUE)

SpecRace == Init /\ [][NextRace]_vars

\* --------------------------------- SpecPublic: every entity, every read

SkillPayloads ==
    { [name |-> <<"a">>, level |-> 90, category |-> <<"B">>, orderIndex |-> 0,
       published |-> TRUE, deleted |-> FALSE] }

TestimonialPayloads ==
    { [name |-> <<"a">>, role |-> <<"b">>, quote |-> <<"c">>, orderIndex |-> 0,
       published |-> TRUE, deleted |-> FALSE] }

CertificatePayloads ==
    { [title |-> <<"a">>, issuer |-> <<"B">>, issueDate |-> "2024-01",
       tags |-> << <<"b">> >>, published |-> TRUE, deleted |-> FALSE] }

Tags == {NONE, <<"B">>, <<"b">>}

Searches == {NONE, <<"b">>, <<"a", "B">>}

\* the values of an Optional[bool] parameter
OptBools == {NoBool, {TRUE}, {FALSE}}

\* the (tag or category, search) pairs the read requests carry
Filters == { <<NONE, NONE>>, <<NONE, <<"b">> >>, << <<"B">>, NONE>> }

\* the admin requests of the entities other than project, with credential
\* cred, naming the ids of ids
EntityAdmin(cred, ids) ==
    \/ \E p \in SkillPayloads : create_skill(cred, p, TRUE)
    \/ \E p \in TestimonialPayloads : create_testimonial(cred, p, TRUE)
    \/ \E p \in CertificatePayloads : create_certificate(cred, p, TRUE)
    \/ \E p \in SkillPayloads, i \in ids : update_skill(cred, i, p, TRUE)
    \/ \E p \in TestimonialPayloads, i \in ids : update_testimonial(cred, i, p, TRUE)
    \/ \E p \in CertificatePayloads, i \in ids : update_certificate(cred, i, p, TRUE)
    \/ \E hard \in BOOLEAN, i \in ids : delete_skill(cred, i, hard, TRUE)
    \/ \E hard \in BOOLEAN, i \in ids : delete_testimonial(cred, i, hard, TRUE)
    \/ \E hard \in BOOLEAN, i \in ids : delete_certificate(cred, i, hard, TRUE)

\* the admin requests on single projects, with a body of payloads
ProjectAdmin(cred, ids, payloads) ==
    \/ \E p \in payloads : create_project(cred, p, TRUE)
    \/ \E p \in payloads, i \in ids : update_project(cred, i, p, TRUE)
    \/ \E hard \in BOOLEAN, i \in ids : delete_project(cred, i, hard, TRUE)

\* the ids of the documents in the store
Stored == UNION {DOMAIN db[e] : e \in {"project", "skill", "testimonial", "certificate"}}

NextPublic ==
    \/ (Logging /\ ProjectAdmin(ADMIN_TOKEN, Stored, ProjectPayloads))
    \/ (Logging /\ EntityAdmin(ADMIN_TOKEN, Stored))
    \/ \E published \in {NoBool, {TRUE}}, f \in Filters :
          list_projects(published, f[1], f[2], 1, 20)
    \/ \E slug \in Slugs : get_project(slug)
    \/ \E f \in Filters : list_skills(f[1], f[2])
    \/ list_testimonials
    \/ \E f \in Filters : list_certificates(f[1], f[2])

SpecPublic == Init /\ [][NextPublic]_vars

\* ------------------------------------- SpecAuth: any credential, any write

BadToken == "CHANGEME-ADMIN-TOKEN"

Creds == {ADMIN_TOKEN, BadToken}

\* requests with the admin token fill the store; requests with another
\* credential try every admin operation on it
NextAuth ==
    \/ \E p \in ProjectPayloads : Logging /\ create_project(ADMIN_TOKEN, p, TRUE)
    \/ \E p \in SkillPayloads : Logging /\ create_skill(ADMIN_TOKEN, p, TRUE)
    \/ \E p \in TestimonialPayloads : Logging /\ create_testimonial(ADMIN_TOKEN, p, TRUE)
    \/ \E p \in CertificatePayloads : Logging /\ create_certificate(ADMIN_TOKEN, p, TRUE)
    \/ \E i \in DOMAIN db.project : Logging /\ delete_project(ADMIN_TOKEN, i, FALSE, TRUE)
    \/ \E p \in ProjectPayloads : ProjectAdmin(BadToken, {1}, {p})
    \/ EntityAdmin(BadToken, {1})
    \/ \E cred \in Creds, published \in BOOLEAN :
          bulk_publish_projects(cred, <<1, 2>>, published)
    \/ \E cred \in Creds : reorder_projects(cred, <<2, 1>>)

SpecAuth == Init /\ [][NextAuth]_vars

\* ------------------------------------------------------ SpecPage: paging

PagePayloads ==
    { ProjectPayload(<<"A", "b">>, "a", << <<"B">> >>, TRUE, TRUE, 0),
      ProjectPayload(<<"b">>, "b", <<>>, FALSE, TRUE, 0),
      ProjectPayload(<<"a">>, "d", <<>>, FALSE, FALSE, 1) }

Pages == 1..(MaxLog + 1)

Limits == 1..MaxLimit

NextPage ==
    \/ \E p \in PagePayloads : Logging /\ create_project(ADMIN_TOKEN, p, TRUE)
    \/ \E i \in DOMAIN db.project : Logging /\ delete_project(ADMIN_TOKEN, i, FALSE, TRUE)
    \/ \E published \in {NoBool, {TRUE}}, page \in Pages, limit \in Limits :
          list_projects(published, NONE, NONE, page, limit)
    \/ (now < MaxClock /\ Tick(1))

SpecPage == Init /\ [][NextPage]_vars

\* ------------------------------------------- SpecRate: the contact form

Callers == {"10.0.0.1", "unknown"}

Forms == { [name |-> "n", email |-> "e@x", message |-> "m"] }

\* the instants at which requests arrive
TimePoints == {0, 1, 59, 60, 61, 120}

NextRate ==
    \/ \E ip \in Callers, form \in Forms :
          Len(submissions) < MaxSubmissions /\ contact(ip, form)
    \/ \E t \in TimePoints : t > now /\ Tick(t - now)

SpecRate == Init /\ [][NextRate]_vars

\* ------------------------- SpecLog: admin writes whose log insert may raise

\* the activity-log insert of a handler succeeds, or raises
LogOutcomes == BOOLEAN

NextLog ==
    \/ \E p \in ProjectPayloads, log_ok \in LogOutcomes :
          nextId < MaxLog /\ Logging /\ create_project(ADMIN_TOKEN, p, log_ok)
    \/ \E i \in DOMAIN db.project, p \in ProjectPayloads, log_ok \in LogOutcomes :
          Logging /\ update_project(ADMIN_TOKEN, i, p, log_ok)
    \/ \E i \in DOMAIN db.project, hard \in BOOLEAN, log_ok \in LogOutcomes :
          Logging /\ delete_project(ADMIN_TOKEN, i, hard, log_ok)
    \/ \E slug \in Slugs : get_project(slug)

SpecLog == Init /\ [][NextLog]_vars

\* ------------------------------------------------------------- the claims

\* project i of coll is returned by some public read: the unfiltered list or
\* the lookup of a slug
PubliclyVisible(coll, i) ==
    \/ \E k \in 1..Len(ListProjectsBody(coll, NoBool, NONE, NONE, 1, 20).items) :
          ListProjectsBody(coll, NoBool, NONE, NONE, 1, 20).items[k].id = i
    \/ \E slug \in Slugs :
          /\ GetProjectBody(coll, slug).status = 200
          /\ GetProjectBody(coll, slug).item.id = i

\* C2: a soft-deleted project stays in the collection and stays out of every
\* public read through every later admin operation but its hard delete.
C2_SoftDeleteIsPermanent ==
    [][\A i \in DOMAIN db.project :
          ( /\ db.project[i].deleted = TRUE
            /\ ~ delete_project(ADMIN_TOKEN, i, TRUE, TRUE) )
          => ( /\ i \in DOMAIN db'.project
               /\ ~ PubliclyVisible(db'.project, i) )]_vars

\* C3: create_project with the slug of a document already in the project
\* collection, soft-deleted ones included, answers 400 (the Conflict client
\* error) and writes nothing: no project document, no activity-log entry.
C3_DuplicateSlugConflict ==
    [][\A p \in ProjectPayloads :
          ( /\ create_project(ADMIN_TOKEN, p, TRUE)
            /\ \E i \in DOMAIN db.project : db.project[i].slug = p.slug )
          => (resp'.status = 400 /\ db' = db /\ nextId' = nextId)]_vars

\* a create was refused although every project with a slug is soft-deleted
C3_Witness ==
    /\ call.op = "create_project"
    /\ resp.status = 400
    /\ DOMAIN db.project # {}
    /\ \A i \in DOMAIN db.project : db.project[i].deleted = TRUE

\* C7: bulk_publish_projects answers success whether or not every id exists;
\* it sets published to the given value on every project named in ids and
\* changes nothing else: no project is added or removed, a project not named
\* is left as it was, a named project keeps every field but published and
\* updated_at, and the other collections are left alone.
C7_BulkPublishFrame ==
    [][( /\ call'.op = "bulk_publish_projects"
         /\ bulk_publish_projects(ADMIN_TOKEN, call'.ids, call'.published) )
       => LET ids == call'.ids
              published == call'.published
          IN /\ resp'.status = 200
             /\ DOMAIN db'.project = DOMAIN db.project
             /\ \A e \in (DOMAIN db) \ {"project"} : db'[e] = db[e]
             /\ \A i \in DOMAIN db.project :
                   IF \E k \in 1..Len(ids) : ids[k] = i
                   THEN /\ db'.project[i].published = published
                        /\ DOMAIN db'.project[i] = DOMAIN db.project[i]
                        /\ \A f \in (DOMAIN db.project[i]) \ {"published", "updated_at"} :
                              db'.project[i][f] = db.project[i][f]
                   ELSE db'.project[i] = db.project[i]]_vars

\* a bulk publish naming an id that exists and one that does not succeeded,
\* with a project left out of it whose published flag differs
C7_Witness ==
    /\ call.op = "bulk_publish_projects"
    /\ resp.status = 200
    /\ \E k \in 1..Len(call.ids) : call.ids[k] \notin DOMAIN db.project
    /\ \E k \in 1..Len(call.ids) :
          /\ call.ids[k] \in DOMAIN db.project
          /\ db.project[call.ids[k]].deleted = TRUE
    /\ \E j \in DOMAIN db.project :
          /\ \A k \in 1..Len(call.ids) : call.ids[k] # j
          /\ db.project[j].published # call.published

\* C5: reorder_projects with a list of different ids gives every listed
\* project its 0-based position as orderIndex and changes nothing else: a
\* listed id that does not exist adds nothing, a project not listed keeps its
\* orderIndex, and every other field of every project stays as it was.
C5_ReorderFrame ==
    [][( /\ call'.op = "reorder_projects"
         /\ Distinct(call'.ordered_ids)
         /\ reorder_projects(ADMIN_TOKEN, call'.ordered_ids) )
       => LET ids == call'.ordered_ids
          IN /\ DOMAIN db'.project = DOMAIN db.project
             /\ \A e \in (DOMAIN db) \ {"project"} : db'[e] = db[e]
             /\ \A i \in DOMAIN db.project :
                   /\ DOMAIN db'.project[i] = DOMAIN db.project[i]
                   /\ \A f \in (DOMAIN db.project[i]) \ {"orderIndex"} :
                         db'.project[i][f] = db.project[i][f]
                   /\ \A k \in 1..Len(ids) :
                         ids[k] = i => db'.project[i].orderIndex = k - 1
                   /\ (\A k \in 1..Len(ids) : ids[k] # i)
                         => db'.project[i].orderIndex = db.project[i].orderIndex]_vars

\* a reorder of different ids has run that named a missing id first and an
\* existing project second, and left out a project whose orderIndex differs
C5_Witness ==
    /\ call.op = "reorder_projects"
    /\ resp.status = 200
    /\ Distinct(call.ordered_ids)
    /\ Len(call.ordered_ids) = 2
    /\ call.ordered_ids[1] \notin DOMAIN db.project
    /\ call.ordered_ids[2] \in DOMAIN db.project
    /\ \E j \in DOMAIN db.project :
          /\ \A k \in 1..Len(call.ordered_ids) : call.ordered_ids[k] # j
          /\ db.project[j].orderIndex # db.project[call.ordered_ids[2]].orderIndex

\* the ids of the items of a list response, in order
ItemIds(body) == [k \in 1..Len(body.items) |-> body.items[k].id]

\* the last request was a reorder naming every project exactly once, and no
\* project is soft-deleted
ReorderedAll ==
    /\ call.op = "reorder_projects"
    /\ resp.status = 200
    /\ Distinct(call.ordered_ids)
    /\ Range(call.ordered_ids) = DOMAIN db.project
    /\ \A i \in DOMAIN db.project : db.project[i].deleted = FALSE

\* C6 as claimed: after a reorder naming every project once, the unfiltered
\* project list returns the projects in exactly the order of the request.
C6_ListFollowsReorder ==
    ReorderedAll =>
        ItemIds(ListProjectsBody(db.project, NoBool, NONE, NONE, 1, 20)) = call.ordered_ids

\* the sublist of the ids of s whose project has the given featured flag
FeaturedPart(s, featured) ==
    SelectSeq(s, LAMBDA i : db.project[i].featured = featured)

\* C6 amended: after such a reorder the unfiltered project list returns the
\* featured projects in the order of the request, then the others in the
\* order of the request.
C6_ListFollowsReorderWithinFeatured ==
    ReorderedAll =>
        ItemIds(ListProjectsBody(db.project, NoBool, NONE, NONE, 1, 20))
            = FeaturedPart(call.ordered_ids, TRUE) \o FeaturedPart(call.ordered_ids, FALSE)

\* a reorder of all projects has put a project that is not featured before a
\* featured one
C6_Witness ==
    /\ ReorderedAll
    /\ Len(call.ordered_ids) >= 2
    /\ db.project[call.ordered_ids[1]].featured = FALSE
    /\ db.project[call.ordered_ids[2]].featured = TRUE

\* a list response holds no soft-deleted document of coll
NoDeletedItems(body, coll) ==
    \A k \in 1..Len(body.items) :
        /\ body.items[k].deleted # TRUE
        /\ body.items[k].id \in DOMAIN coll
        /\ coll[body.items[k].id].deleted # TRUE

\* C1: no public read (project list, project lookup by slug, skill list,
\* testimonial list, certificate list) returns a soft-deleted document,
\* whatever its filter and paging parameters are; nor did the last response.
C1_NoDeletedInPublicReads ==
    /\ \A published \in OptBools, tag \in Tags, search \in Searches, limit \in {1, 20} :
          NoDeletedItems(ListProjectsBody(db.project, published, tag, search, 1, limit),
                         db.project)
    /\ \A slug \in Slugs :
          GetProjectBody(db.project, slug).status = 200
          => /\ GetProjectBody(db.project, slug).item.deleted # TRUE
             /\ db.project[GetProjectBody(db.project, slug).item.id].deleted # TRUE
    /\ \A category \in Tags, search \in Searches :
          NoDeletedItems(ListSkillsBody(db.skill, category, search), db.skill)
    /\ NoDeletedItems(ListTestimonialsBody(db.testimonial), db.testimonial)
    /\ \A tag \in Tags, search \in Searches :
          NoDeletedItems(ListCertificatesBody(db.certificate, tag, search), db.certificate)
    /\ ("items" \in DOMAIN resp => \A k \in 1..Len(resp.items) : resp.items[k].deleted # TRUE)
    /\ ("item" \in DOMAIN resp => resp.item.deleted # TRUE)

\* a project list has returned something while the collection holds a
\* soft-deleted project that its filter would otherwise match
C1_Witness ==
    /\ call.op = "list_projects"
    /\ Len(resp.items) >= 1
    /\ \E i \in DOMAIN db.project :
          /\ db.project[i].deleted = TRUE
          /\ ProjectQuery([db.project[i] EXCEPT !.deleted = FALSE],
                          call.published, call.tag, call.search)

\* C4: no two documents of the project collection have the same slug.
C4_UniqueSlugs ==
    \A i, j \in DOMAIN db.project :
        i # j => db.project[i].slug # db.project[j].slug

Min(a, b) == IF a < b THEN a ELSE b

Max(a, b) == IF a > b THEN a ELSE b

\* pages 1..n of a query, one after the other
RECURSIVE PagesUpTo(_, _, _, _)
PagesUpTo(coll, published, n, limit) ==
    IF n = 0 THEN <<>>
    ELSE PagesUpTo(coll, published, n - 1, limit)
         \o ItemIds(ListProjectsBody(coll, published, NONE, NONE, n, limit))

\* C8: with N projects matching the filter, total is N for every page and
\* limit; the items are the elements at 0-based positions (page-1)*limit to
\* min(page*limit, N)-1 of the sorted matching sequence, so there are
\* max(0, min(limit, N-(page-1)*limit)) of them; and the pages of one query,
\* one after the other, are the sorted matching sequence (disjoint, complete).
C8_Pagination ==
    /\ \A published \in {NoBool, {TRUE}}, limit \in Limits :
          LET sorted == ProjectCursor(db.project, published, NONE, NONE)
              N == Cardinality({i \in DOMAIN db.project :
                                  ProjectQuery(db.project[i], published, NONE, NONE)})
          IN  /\ Len(sorted) = N
              /\ PagesUpTo(db.project, published, N, limit) = sorted
              /\ \A page \in Pages :
                    LET body == ListProjectsBody(db.project, published, NONE, NONE,
                                                 page, limit)
                        count == Max(0, Min(limit, N - (page - 1) * limit))
                    IN  /\ body.total = N
                        /\ Len(body.items) = count
                        /\ \A k \in 1..count :
                              body.items[k].id = sorted[(page - 1) * limit + k]
    /\ call.op = "list_projects"
          => LET N == Cardinality({i \in DOMAIN db.project :
                        ProjectQuery(db.project[i], call.published, call.tag, call.search)})
             IN  /\ resp.total = N
                 /\ Len(resp.items) = Max(0, Min(call.limit, N - (call.page - 1) * call.limit))

\* a second page of limit 2 has returned the one remaining project of three
\* matching ones
C8_Witness ==
    /\ call.op = "list_projects"
    /\ call.page = 2
    /\ call.limit = 2
    /\ resp.total = 3
    /\ Len(resp.items) = 1

\* the accepted submissions of key before submission n that lie less than
\* window seconds before it
AcceptedBefore(n) ==
    {j \in 1..(n - 1) :
        /\ submissions[j].key = submissions[n].key
        /\ submissions[j].accepted
        /\ submissions[n].t - submissions[j].t < 60}

\* C9: a contact submission is accepted exactly when fewer than 3 accepted
\* submissions of its key lie within the 60 seconds before it; so no four
\* accepted submissions of one key lie less than 60 seconds apart.
C9_RateLimit ==
    /\ \A n \in 1..Len(submissions) :
          submissions[n].accepted <=> Cardinality(AcceptedBefore(n)) < 3
    /\ \A a, b, c, d \in 1..Len(submissions) :
          ( /\ a < b /\ b < c /\ c < d
            /\ \A n \in {a, b, c, d} :
                  submissions[n].accepted /\ submissions[n].key = submissions[a].key )
          => submissions[d].t - submissions[a].t >= 60

\* one caller had three submissions accepted, a fourth refused inside the
\* window, and a fifth accepted exactly 60 seconds after the first three
C9_Witness ==
    /\ Len(submissions) >= 5
    /\ \E a, b, c, d, e \in 1..Len(submissions) :
          /\ a < b /\ b < c /\ c < d /\ d < e
          /\ \A n \in {a, b, c, d, e} : submissions[n].key = submissions[a].key
          /\ \A n \in {a, b, c, e} : submissions[n].accepted
          /\ ~ submissions[d].accepted
          /\ submissions[c].t = submissions[a].t
          /\ submissions[e].t - submissions[a].t = 60
    /\ resp.status = 200

AdminOps ==
    {"create_project", "update_project", "delete_project",
     "create_skill", "update_skill", "delete_skill",
     "create_testimonial", "update_testimonial", "delete_testimonial",
     "create_certificate", "update_certificate", "delete_certificate",
     "bulk_publish_projects", "reorder_projects"}

\* C10: an admin request whose credential is not the configured token is
\* answered 401 and the store (every collection, the activity log) is left
\* exactly as it was.
C10_UnauthorizedTouchesNothing ==
    [][(call'.op \in AdminOps /\ call'.cred # ADMIN_TOKEN)
          => (resp'.status = 401 /\ db' = db /\ nextId' = nextId)]_vars

\* a hard delete of a stored project was refused
C10_Witness ==
    /\ call.op = "delete_project"
    /\ call.cred # ADMIN_TOKEN
    /\ call.hard = TRUE
    /\ resp.status = 401
    /\ call.id \in DOMAIN db.project
    /\ Len(db.activitylog) >= 1

\* the admin operations that write an activity-log entry
LoggedOps == AdminOps \ {"bulk_publish_projects", "reorder_projects"}

\* C11: a create, update or delete whose entity write went through while
\* its activity-log insert failed (the entity collection changed, the log
\* did not) still answers its success result.
C11_LogFailureSwallowed ==
    [][( /\ call'.op \in LoggedOps
         /\ call'.cred = ADMIN_TOKEN
         /\ \E e \in (DOMAIN db) \ {"activitylog"} : db'[e] # db[e]
         /\ db'.activitylog = db.activitylog )
       => resp'.status = 200]_vars

\* C12: the lookup of a project by slug answers a project only if it is
\* published and not deleted, and answers 404 for a slug all of whose
\* projects are unpublished; so did the last lookup.
C12_LookupOnlyPublished ==
    /\ \A slug \in Slugs :
          LET body == GetProjectBody(db.project, slug)
          IN  /\ body.status = 200
                    => (body.item.published = TRUE /\ body.item.deleted # TRUE)
              /\ ( /\ \E i \in DOMAIN db.project : db.project[i].slug = slug
                    /\ \A j \in DOMAIN db.project :
                          db.project[j].slug = slug => db.project[j].published = FALSE )
                    => body.status = 404
    /\ (call.op = "get_project" /\ resp.status = 200)
          => (resp.item.published = TRUE /\ resp.item.deleted # TRUE)

====
